---- MODULE Spec2Model ----
(***************************************************************************)
(* A model of hep-outage-checker (src/src/main.rs).                        *)
(*                                                                         *)
(* Text is modelled as a sequence of tokens.  The four marker literals     *)
(* "Mjesto:", "Ulica:", "Očekivano trajanje:" and "Napomena:" are atomic    *)
(* tokens, " " is a whitespace character, "-" is the hyphen, and the       *)
(* remaining tokens are ordinary characters.  str::starts_with,            *)
(* str::replace, str::trim, str::contains and str::to_lowercase are        *)
(* operators on such sequences that do what the library functions do.      *)
(***************************************************************************)
EXTENDS Integers, Sequences, FiniteSets, TLC

(* ------------------------------ bounds -------------------------------- *)

\* the longest line stream the extractor is stepped over
MaxLines == 4

\* the most blocks a composed page has
MaxBlocks == 2

\* the most records handed to filter_outages on its own
MaxRecords == 2

\* for days_ahead in 0..=7
LastOffset == 7

(* --------------------------- text primitives --------------------------- *)

\* the marker literals of parse_outages
Mjesto == "Mjesto:"
Ulica == "Ulica:"
Trajanje == "Ocekivano trajanje:"
Napomena == "Napomena:"

Space == " "
Hyphen == "-"

EmptyString == <<>>

RECURSIVE TrimStart(_)
TrimStart(s) ==
    IF s # <<>> /\ Head(s) = Space THEN TrimStart(Tail(s)) ELSE s

RECURSIVE TrimEnd(_)
TrimEnd(s) ==
    IF s # <<>> /\ s[Len(s)] = Space THEN TrimEnd(SubSeq(s, 1, Len(s) - 1)) ELSE s

\* str::trim
Trim(s) == TrimEnd(TrimStart(s))

\* str::starts_with(marker)
StartsWith(line, marker) == line # <<>> /\ Head(line) = marker

\* str::replace(marker, ""): every occurrence of the marker is removed
Replace(line, marker) == SelectSeq(line, LAMBDA t : t # marker)

\* str::contains("-")
ContainsHyphen(line) == \E i \in 1..Len(line) : line[i] = Hyphen

\* line.replace(marker, "").trim().to_string()
MarkerValue(line, marker) == Trim(Replace(line, marker))

(* ------------------------------ the input ------------------------------ *)

\* the heading labels a page can carry (text of the first h3, or empty)
Dates == { <<>>, <<"d">> }

\* the raw lines of a page, before line 62 trims them
RawLines ==
    { <<Mjesto, Space, "a">>, <<Mjesto, "b">>,
      <<Ulica, Space, "a">>, <<Ulica>>, <<Space, Ulica, "b", Space>>,
      <<Trajanje, Space, "a">>, <<Trajanje, Space>>,
      <<Napomena, Space, "a">>, <<Napomena>>, <<Napomena, "b", Napomena>>,
      <<>>, <<"a">>, <<"a", Hyphen, "b">> }

(* -------------------------------- state -------------------------------- *)

VARIABLES
    date,             \* parse_outages: the heading label of the page
    seen,             \* parse_outages: the trimmed lines consumed so far
    current_outage,   \* parse_outages: Option<PowerOutage>, <<>> or <<r>>
    expect_time_next, \* parse_outages: the pending-continuation flag
    outages,          \* parse_outages: the output vector
    ppc,              \* parse_outages: "scan" inside the loop, "done" after it
    blocks,           \* the values a composed page was built from
    todo,             \* the raw lines of a composed page still to be read
    pc,               \* main: the place the run is at
    dry_run,          \* main: args.dry_run
    filter,           \* main: args.filter, <<>> or <<text>>
    env,              \* main: the environment variables that are set
    days_ahead,       \* main: the loop variable of the window loop
    all_outages,      \* main: the accumulated records
    attempts,         \* main: per offset tried, what the fetch met and did
    events,           \* main: the fetches, delays and reports in order
    filtered_outages, \* main: the result of filter_outages
    exit              \* main: "running", "ok" (returned Ok) or "panic"

pvars == <<date, seen, current_outage, expect_time_next, outages, ppc, blocks, todo>>
mvars == <<pc, dry_run, filter, env, days_ahead, all_outages, attempts, events,
           filtered_outages, exit>>
vars == <<pvars, mvars>>

None == <<>>
Some(r) == <<r>>
IsSome(o) == o # <<>>

\* struct PowerOutage as built by the location branch
NewOutage(d, loc) ==
    [date |-> d, location |-> loc, street |-> EmptyString,
     time |-> EmptyString, note |-> EmptyString]

(* ---------------------------- parse_outages ---------------------------- *)

\* the extractor state threaded through the loop
PState(cur, expect, out) ==
    [current_outage |-> cur, expect_time_next |-> expect, outages |-> out]

InitPState == PState(None, FALSE, <<>>)

\* if let Some(outage) = current_outage.take() { outages.push(outage) }
PushOpen(out, cur) == IF IsSome(cur) THEN Append(out, cur[1]) ELSE out

\* OnLocation without the push of the open record
OnLocationDropsOpen(st, line, d) ==
    PState(Some(NewOutage(d, MarkerValue(line, Mjesto))), FALSE, st.outages)

\* OnLocation that leaves the flag as it is
OnLocationKeepsFlag(st, line, d) ==
    PState(Some(NewOutage(d, MarkerValue(line, Mjesto))),
           st.expect_time_next,
           PushOpen(st.outages, st.current_outage))

\* the branch of a line that starts with "Mjesto:"
OnLocation(st, line, d) ==
    PState(Some(NewOutage(d, MarkerValue(line, Mjesto))),
           FALSE,
           PushOpen(st.outages, st.current_outage))

\* SetField that appends to the field instead of overwriting it
SetFieldAppends(cur, field, value) ==
    IF IsSome(cur) THEN Some([cur[1] EXCEPT ![field] = @ \o value]) ELSE cur

\* if let Some(ref mut outage) = current_outage { outage.<field> = value }
SetField(cur, field, value) ==
    IF IsSome(cur) THEN Some([cur[1] EXCEPT ![field] = value]) ELSE cur

\* OnStreet that leaves the flag as it is
OnStreetKeepsFlag(st, line) ==
    PState(SetField(st.current_outage, "street", MarkerValue(line, Ulica)),
           st.expect_time_next, st.outages)

\* the branch of a line that starts with "Ulica:"
OnStreet(st, line) ==
    PState(SetField(st.current_outage, "street", MarkerValue(line, Ulica)),
           FALSE, st.outages)

\* the branch of a line that starts with the duration marker
OnDuration(st, line) ==
    LET time_on_same_line == MarkerValue(line, Trajanje)
    IN  IF time_on_same_line # EmptyString
        THEN PState(SetField(st.current_outage, "time", time_on_same_line),
                    FALSE, st.outages)
        ELSE PState(st.current_outage, TRUE, st.outages)

\* OnNote that opens a record when none is open
OnNoteOpensRecord(st, line) ==
    PState(IF IsSome(st.current_outage)
           THEN SetField(st.current_outage, "note", MarkerValue(line, Napomena))
           ELSE Some([NewOutage(EmptyString, EmptyString)
                        EXCEPT !.note = MarkerValue(line, Napomena)]),
           FALSE, st.outages)

\* the branch of a line that starts with "Napomena:"
OnNote(st, line) ==
    PState(SetField(st.current_outage, "note", MarkerValue(line, Napomena)),
           FALSE, st.outages)

\* OnContinuation that leaves the flag set
OnContinuationKeepsFlag(st, line) ==
    PState(SetField(st.current_outage, "time", line), TRUE, st.outages)

\* the branch of an accepted continuation line
OnContinuation(st, line) ==
    PState(SetField(st.current_outage, "time", line), FALSE, st.outages)

\* which branch of the if / else-if chain a trimmed line takes
LineKind(line, expect) ==
    IF StartsWith(line, Mjesto) THEN "location"
    ELSE IF StartsWith(line, Ulica) THEN "street"
    ELSE IF StartsWith(line, Trajanje) THEN "duration"
    ELSE IF StartsWith(line, Napomena) THEN "note"
    ELSE IF expect /\ line # EmptyString /\ ContainsHyphen(line) THEN "continuation"
    ELSE "ignored"

\* ProcessLine whose last arm clears the flag on a line that takes no branch
ProcessLineIgnoredClearsFlag(st, line, d) ==
    LET kind == LineKind(line, st.expect_time_next)
    IN  CASE kind = "location" -> OnLocation(st, line, d)
          [] kind = "street" -> OnStreet(st, line)
          [] kind = "duration" -> OnDuration(st, line)
          [] kind = "note" -> OnNote(st, line)
          [] kind = "continuation" -> OnContinuation(st, line)
          [] OTHER -> PState(st.current_outage, FALSE, st.outages)

\* one iteration of `for line in lines`
ProcessLine(st, line, d) ==
    LET kind == LineKind(line, st.expect_time_next)
    IN  CASE kind = "location" -> OnLocation(st, line, d)
          [] kind = "street" -> OnStreet(st, line)
          [] kind = "duration" -> OnDuration(st, line)
          [] kind = "note" -> OnNote(st, line)
          [] kind = "continuation" -> OnContinuation(st, line)
          [] OTHER -> st

\* FinishParse without the push of the last record
FinishParseForgetsLast(st) == st.outages

\* after the loop: push the record that is still open
FinishParse(st) == PushOpen(st.outages, st.current_outage)

RECURSIVE FoldLines(_, _, _)
FoldLines(st, ls, d) ==
    IF ls = <<>> THEN st ELSE FoldLines(ProcessLine(st, Head(ls), d), Tail(ls), d)

\* lines 62: every line of the text is trimmed
RECURSIVE TrimAll(_)
TrimAll(raws) ==
    IF raws = <<>> THEN <<>> ELSE <<Trim(Head(raws))>> \o TrimAll(Tail(raws))

\* parse_outages on a page given as its heading label and its raw lines
ParseOutages(d, raws) == FinishParse(FoldLines(InitPState, TrimAll(raws), d))

(* --------------------- the extractor, line by line --------------------- *)

CurPState == PState(current_outage, expect_time_next, outages)

\* main is not running
MainIdle ==
    /\ pc = "idle"
    /\ dry_run = TRUE
    /\ filter = None
    /\ env = {}
    /\ days_ahead = 0
    /\ all_outages = <<>>
    /\ attempts = <<>>
    /\ events = <<>>
    /\ filtered_outages = <<>>
    /\ exit = "running"

\* lines 47, 64, 65: the state parse_outages starts its loop in
ParseStart ==
    /\ seen = <<>>
    /\ current_outage = None
    /\ expect_time_next = FALSE
    /\ outages = <<>>
    /\ ppc = "scan"

\* any heading label; the lines are drawn one by one as the loop reads them
ParseInit ==
    /\ date \in Dates
    /\ ParseStart
    /\ blocks = <<>>
    /\ todo = <<>>
    /\ MainIdle

\* the loop body on the next line of the stream, when it takes branch `kind`
Feed(kind) ==
    /\ ppc = "scan"
    /\ Len(seen) < MaxLines
    /\ \E raw \in RawLines :
         LET line == Trim(raw)
             st == ProcessLine(CurPState, line, date)
         IN  /\ LineKind(line, expect_time_next) = kind
             /\ seen' = Append(seen, line)
             /\ current_outage' = st.current_outage
             /\ expect_time_next' = st.expect_time_next
             /\ outages' = st.outages
    /\ UNCHANGED <<date, ppc, blocks, todo>>
    /\ UNCHANGED mvars

LocationLine == Feed("location")
StreetLine == Feed("street")
DurationLine == Feed("duration")
NoteLine == Feed("note")
ContinuationLine == Feed("continuation")
IgnoredLine == Feed("ignored")

\* the stream ends: lines 112-116
EndOfLines ==
    /\ ppc = "scan"
    /\ todo = <<>>
    /\ outages' = FinishParse(CurPState)
    /\ current_outage' = None
    /\ ppc' = "done"
    /\ UNCHANGED <<date, seen, expect_time_next, blocks, todo>>
    /\ UNCHANGED mvars

ParseNext ==
    \/ LocationLine
    \/ StreetLine
    \/ DurationLine
    \/ NoteLine
    \/ ContinuationLine
    \/ IgnoredLine
    \/ EndOfLines

Spec == ParseInit /\ [][ParseNext]_vars

(* ------------------- the extractor on composed pages ------------------- *)

\* the values a block can be composed from: plain text, text with a hyphen,
\* and text that mentions the marker of its own line again
ValuesFor(marker) ==
    { <<"a">>, <<"b", Hyphen, "b">>, <<"a", Space, marker>> }

BlockValues ==
    [location : ValuesFor(Mjesto), street : ValuesFor(Ulica),
     time : ValuesFor(Trajanje), note : ValuesFor(Napomena)]

\* a complete block: location, street, duration with inline value, note
ComposeBlock(b) ==
    << <<Mjesto, Space>> \o b.location,
       <<Ulica, Space>> \o b.street,
       <<Trajanje, Space>> \o b.time,
       <<Napomena, Space>> \o b.note >>

RECURSIVE Compose(_)
Compose(bs) ==
    IF bs = <<>> THEN <<>> ELSE ComposeBlock(Head(bs)) \o Compose(Tail(bs))

SeqsUpTo(S, n) == UNION {[1..k -> S] : k \in 0..n}

RoundTripInit ==
    /\ date \in Dates
    /\ ParseStart
    /\ blocks \in SeqsUpTo(BlockValues, MaxBlocks)
    /\ todo = Compose(blocks)
    /\ MainIdle

\* the loop body on the next line of the composed page
ComposedLine ==
    /\ ppc = "scan"
    /\ todo # <<>>
    /\ LET line == Trim(Head(todo))
           st == ProcessLine(CurPState, line, date)
       IN  /\ seen' = Append(seen, line)
           /\ current_outage' = st.current_outage
           /\ expect_time_next' = st.expect_time_next
           /\ outages' = st.outages
    /\ todo' = Tail(todo)
    /\ UNCHANGED <<date, ppc, blocks>>
    /\ UNCHANGED mvars

RoundTripNext ==
    \/ ComposedLine
    \/ EndOfLines

SpecRoundTrip == RoundTripInit /\ [][RoundTripNext]_vars

(* --------------------------- filter_outages ---------------------------- *)

\* char::to_lowercase on the characters of the model
LowerChar(c) == CASE c = "A" -> "a" [] c = "B" -> "b" [] OTHER -> c

\* str::to_lowercase
ToLower(s) == [i \in 1..Len(s) |-> LowerChar(s[i])]

\* Contains that finds no empty needle
ContainsNonEmptyOnly(s, needle) ==
    /\ needle # <<>>
    /\ \E i \in 0..(Len(s) - Len(needle)) : SubSeq(s, i + 1, i + Len(needle)) = needle

\* str::contains(&needle)
Contains(s, needle) ==
    \E i \in 0..(Len(s) - Len(needle)) : SubSeq(s, i + 1, i + Len(needle)) = needle

\* Matches that looks at the location only
MatchesLocationOnly(outage, filter_lower) ==
    Contains(ToLower(outage.location), filter_lower)

\* the closure passed to Iterator::filter
Matches(outage, filter_lower) ==
    \/ Contains(ToLower(outage.location), filter_lower)
    \/ Contains(ToLower(outage.street), filter_lower)

\* filter_outages(&outages, &filter): the records the returned references point to
FilterOutages(outs, f) ==
    IF IsSome(f)
    THEN LET filter_lower == ToLower(f[1])
         IN  SelectSeq(outs, LAMBDA o : Matches(o, filter_lower))
    ELSE outs

(* ------------------------------ fetch_page ------------------------------ *)

\* the heading label of the portal's page for an offset of the window
DateLabel(offset) == <<"d", offset>>

\* the portal's listing for an offset: heading label and raw lines
PageTwoOutages(offset) ==
    [date |-> DateLabel(offset),
     lines |-> << <<Mjesto, Space, "a">>, <<Ulica, Space, "a">>, <<Trajanje>>,
                  <<"a", Hyphen, "b">>, <<Mjesto, "b">>, <<Napomena, Space, "a">> >>]
\* the body the portal sends along with an HTTP error status
PageOfErrorStatus == [date |-> <<>>, lines |-> << <<"a", Space, "b">>, <<>> >>]
NoPage == [date |-> <<>>, lines |-> <<>>]

\* what the request for an offset can meet: a transport failure, or a
\* response with a status and a body
FetchOutcomes(offset) ==
    { [kind |-> "transport_error", status |-> 0, body |-> NoPage],
      [kind |-> "response", status |-> 200, body |-> PageTwoOutages(offset)],
      [kind |-> "response", status |-> 500, body |-> PageOfErrorStatus] }

IsErrorStatus(status) == status >= 400

Ok(v) == [ok |-> TRUE, value |-> v]
Err == [ok |-> FALSE, value |-> NoPage]

\* fetch_page: send()? fails on a transport failure, text()? returns the body
\* of whatever response arrived; the status of the response is not looked at
FetchPage(o) == IF o.kind = "transport_error" THEN Err ELSE Ok(o.body)

(* --------------------------------- main --------------------------------- *)

MailVars == {"TO_EMAIL", "FROM_EMAIL", "SMTP_USERNAME", "SMTP_PASSWORD"}
HepVars == {"HEP_CITY", "HEP_OFFICE"}

\* the environments a run is started in
Envs == { MailVars \cup HepVars, HepVars, MailVars \cup {"HEP_OFFICE"}, {} }

\* the filters given on the command line
Filters == { None, Some(<<"A">>) }

\* Required without the mail variables
RequiredHepOnly(dry) == HepVars

\* the variables main reads with expect(): SMTP_SERVER has a default
Required(dry) == IF dry THEN HepVars ELSE MailVars \cup HepVars

\* no page is being stepped through line by line
ParseIdle ==
    /\ date = <<>>
    /\ seen = <<>>
    /\ current_outage = None
    /\ expect_time_next = FALSE
    /\ outages = <<>>
    /\ ppc = "done"
    /\ blocks = <<>>
    /\ todo = <<>>

MainInit ==
    /\ pc = "config"
    /\ dry_run \in BOOLEAN
    /\ filter \in Filters
    /\ env \in Envs
    /\ days_ahead = 0
    /\ all_outages = <<>>
    /\ attempts = <<>>
    /\ events = <<>>
    /\ filtered_outages = <<>>
    /\ exit = "running"
    /\ ParseIdle

\* lines 226-262: every required variable is set
ConfigComplete ==
    /\ pc = "config"
    /\ Required(dry_run) \subseteq env
    /\ pc' = "fetch"
    /\ UNCHANGED <<dry_run, filter, env, days_ahead, all_outages, attempts, events,
                   filtered_outages, exit>>
    /\ UNCHANGED pvars

\* lines 226-251: an expect() on a variable that is not set panics
ConfigMissing ==
    /\ pc = "config"
    /\ ~(Required(dry_run) \subseteq env)
    /\ pc' = "panicked"
    /\ exit' = "panic"
    /\ UNCHANGED <<dry_run, filter, env, days_ahead, all_outages, attempts, events,
                   filtered_outages>>
    /\ UNCHANGED pvars

\* all_outages.extend(outages), under `if !outages.is_empty()`
ExtendPrepends(all, found) == found \o all
Extend(all, found) == IF found # <<>> THEN all \o found ELSE all

\* where the loop goes after the body of an offset that failed
AfterFailureBreaks == "filter"
\* the loop head is reached again without the delay
AfterFailureSkipsDelay == "fetch"
AfterFailure == "sleep"

\* lines 270, 289-291: fetch_page returns Err; the error is logged
FetchFails ==
    /\ pc = "fetch"
    /\ \E o \in FetchOutcomes(days_ahead) :
         /\ ~FetchPage(o).ok
         /\ attempts' = Append(attempts,
                [offset |-> days_ahead, met |-> o, parsed |-> FALSE, found |-> <<>>])
    /\ events' = Append(events, "fetch")
    /\ pc' = AfterFailure
    /\ UNCHANGED <<dry_run, filter, env, days_ahead, all_outages, filtered_outages, exit>>
    /\ UNCHANGED pvars

\* lines 270-283: fetch_page returns Ok(html); parse_outages(&html) returns
\* Ok(outages), and the records are appended when there are any
FetchParses ==
    /\ pc = "fetch"
    /\ \E o \in FetchOutcomes(days_ahead) :
         LET r == FetchPage(o)
             found == ParseOutages(r.value.date, r.value.lines)
         IN  /\ r.ok
             /\ attempts' = Append(attempts,
                    [offset |-> days_ahead, met |-> o, parsed |-> TRUE, found |-> found])
             /\ all_outages' = Extend(all_outages, found)
    /\ events' = Append(events, "fetch")
    /\ pc' = "sleep"
    /\ UNCHANGED <<dry_run, filter, env, days_ahead, filtered_outages, exit>>
    /\ UNCHANGED pvars

\* line 295 and the loop head: the delay, then the next offset or the loop's end
Sleep ==
    /\ pc = "sleep"
    /\ events' = Append(events, "sleep")
    /\ IF days_ahead < LastOffset
       THEN days_ahead' = days_ahead + 1 /\ pc' = "fetch"
       ELSE days_ahead' = days_ahead /\ pc' = "filter"
    /\ UNCHANGED <<dry_run, filter, env, all_outages, attempts, filtered_outages, exit>>
    /\ UNCHANGED pvars

\* lines 299-308
ApplyFilter ==
    /\ pc = "filter"
    /\ filtered_outages' = FilterOutages(all_outages, filter)
    /\ events' = Append(events, "filter")
    /\ pc' = "report"
    /\ UNCHANGED <<dry_run, filter, env, days_ahead, all_outages, attempts, exit>>
    /\ UNCHANGED pvars

Finish(ev) ==
    /\ events' = Append(events, ev)
    /\ pc' = "done"
    /\ exit' = "ok"
    /\ UNCHANGED <<dry_run, filter, env, days_ahead, all_outages, attempts,
                   filtered_outages>>
    /\ UNCHANGED pvars

\* lines 310-322: print_outages_detailed
PrintReport == pc = "report" /\ dry_run /\ Finish("print")

\* EmailSent without the test that there is something to send
EmailSentWhenEmpty == pc = "report" /\ ~dry_run /\ Finish("send_ok")

\* lines 324-347: send_email returns Ok
EmailSent ==
    pc = "report" /\ ~dry_run /\ filtered_outages # <<>> /\ Finish("send_ok")

\* EmailFails that hands the error of send_email on to the caller of main
EmailFailsPropagates ==
    /\ pc = "report" /\ ~dry_run /\ filtered_outages # <<>>
    /\ events' = Append(events, "send_failed")
    /\ pc' = "done"
    /\ exit' = "error"
    /\ UNCHANGED <<dry_run, filter, env, days_ahead, all_outages, attempts,
                   filtered_outages>>
    /\ UNCHANGED pvars

\* lines 324-348: send_email returns Err, which is logged
EmailFails ==
    pc = "report" /\ ~dry_run /\ filtered_outages # <<>> /\ Finish("send_failed")

\* lines 350-356: nothing to send
NoEmail ==
    pc = "report" /\ ~dry_run /\ filtered_outages = <<>> /\ Finish("no_email")

MainNext ==
    \/ ConfigComplete
    \/ ConfigMissing
    \/ FetchFails
    \/ FetchParses
    \/ Sleep
    \/ ApplyFilter
    \/ PrintReport
    \/ EmailSent
    \/ EmailFails
    \/ NoEmail

SpecMain == MainInit /\ [][MainNext]_vars

\* main is one sequential thread: every blocking call (the request, the delay,
\* the delivery) returns, so a step that can be taken is taken
SpecMainFair == SpecMain /\ WF_vars(MainNext)

(* ----------------------- filter_outages on its own ----------------------- *)

\* the records handed to filter_outages: locations and streets in mixed case
FilterRecords ==
    { [date |-> <<"d">>, location |-> l, street |-> st,
       time |-> EmptyString, note |-> EmptyString] :
         l \in { <<"a">>, <<"A", "b">>, <<"b">> }, st \in { <<>>, <<"B", "a">> } }

\* the filter texts given with --filter
FilterTexts == { <<>>, <<"a">>, <<"B">>, <<"A", "B">>, <<"b", "A">> }

FilterInit ==
    /\ pc = "filter"
    /\ dry_run = TRUE
    /\ filter \in {None} \cup {Some(t) : t \in FilterTexts}
    /\ env = HepVars
    /\ days_ahead = LastOffset
    /\ all_outages \in SeqsUpTo(FilterRecords, MaxRecords)
    /\ attempts = <<>>
    /\ events = <<>>
    /\ filtered_outages = <<>>
    /\ exit = "running"
    /\ ParseIdle

FilterNext == ApplyFilter

SpecFilter == FilterInit /\ [][FilterNext]_vars

(* ------------------ properties of the extractor (Spec) ------------------ *)

MarkerSet == {Mjesto, Ulica, Trajanje, Napomena}

IsMarkerLine(l) == l # <<>> /\ Head(l) \in MarkerSet
IsLocationLine(l) == StartsWith(l, Mjesto)
\* a duration marker whose inline value is empty
IsEmptyDuration(l) == StartsWith(l, Trajanje) /\ MarkerValue(l, Trajanje) = EmptyString
\* a duration marker that carries an inline value
IsInlineDuration(l) == StartsWith(l, Trajanje) /\ MarkerValue(l, Trajanje) # EmptyString
\* a non-empty line with a hyphen and none of the four marker prefixes
IsHyphenLine(l) == l # <<>> /\ ~IsMarkerLine(l) /\ ContainsHyphen(l)
\* a non-empty line without a hyphen and with none of the four marker prefixes
IsPlainLine(l) == l # <<>> /\ ~IsMarkerLine(l) /\ ~ContainsHyphen(l)

LocationLines(ls) == SelectSeq(ls, IsLocationLine)

\* the step consumes one line; LastLine is that line, read in the new state
LineStep == ppc = "scan" /\ seen' # seen
LastLine(ls) == ls[Len(ls)]

\* the index in ls of the last location line, 0 when there is none
LastLocationIndex(ls) ==
    LET idx == {i \in 1..Len(ls) : IsLocationLine(ls[i])}
    IN  IF idx = {} THEN 0 ELSE CHOOSE i \in idx : \A j \in idx : j <= i

\* the lines of the block of the open record: those after its location line
Block(ls) == SubSeq(ls, LastLocationIndex(ls) + 1, Len(ls))

\* C1: a location-marker line processed while a record is open appends that
\* record, with the field values it had, exactly once to the output, and the
\* record started by the line is a fresh one that is not in the output
C1_LocationSealsOpenRecord ==
    [][ (LineStep /\ IsLocationLine(LastLine(seen')) /\ IsSome(current_outage))
          => /\ outages' = Append(outages, current_outage[1])
             /\ IsSome(current_outage')
             /\ current_outage'[1].street = EmptyString
             /\ current_outage'[1].time = EmptyString
             /\ current_outage'[1].note = EmptyString ]_vars

\* a record with a street was sealed by a location marker, not by the end
C1_Witness ==
    /\ ppc = "scan"
    /\ Len(outages) = 1
    /\ outages[1].street # EmptyString
    /\ IsSome(current_outage)

\* the records in the order they were started: the emitted ones, then the open one
Started == outages \o current_outage

\* C2: the emitted records plus the open one are, in order, the records of the
\* location-marker lines seen so far, at most one record is open, and after the
\* end of the stream the output has one record per location-marker line
C2_OneRecordPerLocation ==
    /\ Len(current_outage) <= 1
    /\ Len(Started) = Len(LocationLines(seen))
    /\ \A i \in 1..Len(Started) :
         Started[i].location = MarkerValue(LocationLines(seen)[i], Mjesto)
    /\ ppc = "done" => Len(outages) = Len(LocationLines(seen))

\* the stream ended inside the second block, and both blocks are in the output
C2_Witness ==
    /\ ppc = "done"
    /\ Len(outages) = 2
    /\ outages[1].location # outages[2].location
    /\ ~IsLocationLine(LastLine(seen))

\* C4: a hyphen line that directly follows an empty duration marker, while a
\* record is open, becomes that record's time verbatim and clears the flag
C4_ContinuationSetsTime ==
    [][ (/\ LineStep
         /\ seen # <<>>
         /\ IsEmptyDuration(LastLine(seen))
         /\ IsSome(current_outage)
         /\ IsHyphenLine(LastLine(seen')))
          => /\ current_outage' =
                  Some([current_outage[1] EXCEPT !.time = LastLine(seen')])
             /\ expect_time_next' = FALSE
             /\ outages' = outages ]_vars

\* the open record took its time from the line after an empty duration marker
C4_Witness ==
    /\ Len(seen) >= 3
    /\ IsEmptyDuration(seen[Len(seen) - 1])
    /\ IsHyphenLine(LastLine(seen))
    /\ IsSome(current_outage)
    /\ current_outage[1].time = LastLine(seen)
    /\ ~expect_time_next

\* the most recent marker line of ls is an empty duration marker at index i,
\* and a non-empty line without a hyphen came after it
PlainLineSinceEmptyDuration(ls) ==
    \E i \in 1..Len(ls) :
        /\ IsEmptyDuration(ls[i])
        /\ \A j \in (i + 1)..Len(ls) : ~IsMarkerLine(ls[j])
        /\ \E j \in (i + 1)..Len(ls) : IsPlainLine(ls[j])

\* C5: only the next non-empty line after an empty duration marker can supply
\* the time: once that line was one without a hyphen, a later hyphen line of
\* the same block is not assigned to time
C5_OnlyNextLineSuppliesTime ==
    [][ (/\ LineStep
         /\ PlainLineSinceEmptyDuration(seen)
         /\ IsHyphenLine(LastLine(seen')))
          => current_outage' = current_outage ]_vars

\* the last line of ls for which P holds, <<>> when there is none
LastLineWith(ls, P(_)) ==
    LET idx == {i \in 1..Len(ls) : P(ls[i])}
    IN  IF idx = {} THEN <<>> ELSE ls[CHOOSE i \in idx : \A j \in idx : j <= i]

IsStreetLine(l) == StartsWith(l, Ulica)
IsDurationLine(l) == StartsWith(l, Trajanje)
IsNoteLine(l) == StartsWith(l, Napomena)

\* C6 as stated: each field of the open record holds the value of the last
\* marker of its kind in the block, an empty value included (for the duration
\* marker this is read where no continuation line can have come after it)
C6_LastOccurrenceWins ==
    IsSome(current_outage) =>
        LET b == Block(seen)
            r == current_outage[1]
        IN  /\ r.street = MarkerValue(LastLineWith(b, IsStreetLine), Ulica)
            /\ r.note = MarkerValue(LastLineWith(b, IsNoteLine), Napomena)
            /\ (b # <<>> /\ IsDurationLine(LastLine(b)))
                  => r.time = MarkerValue(LastLine(b), Trajanje)

\* the hyphen lines of b that come after the last inline duration marker
HyphenLinesAfterInline(b) ==
    LET idx == {i \in 1..Len(b) : IsInlineDuration(b[i])}
        from == IF idx = {} THEN 0 ELSE CHOOSE i \in idx : \A j \in idx : j <= i
    IN  {b[j] : j \in {k \in (from + 1)..Len(b) : IsHyphenLine(b[k])}}

\* C6 amended: street and note hold the value of the last marker of their kind,
\* an empty value included; a duration marker overwrites time only when its
\* inline value is not empty, so time holds the value of the last duration
\* marker with an inline value unless a hyphen line came after it, and then
\* that value or one of those lines; no field is ever a concatenation
C6_LastWriteWins ==
    IsSome(current_outage) =>
        LET b == Block(seen)
            r == current_outage[1]
            inline == MarkerValue(LastLineWith(b, IsInlineDuration), Trajanje)
        IN  /\ r.street = MarkerValue(LastLineWith(b, IsStreetLine), Ulica)
            /\ r.note = MarkerValue(LastLineWith(b, IsNoteLine), Napomena)
            /\ r.time \in {inline} \cup HyphenLinesAfterInline(b)
            /\ HyphenLinesAfterInline(b) = {} => r.time = inline

\* the open block has a duration marker with an inline value directly followed
\* by one with an empty value, and time still holds the inline value
C6_Witness ==
    /\ IsSome(current_outage)
    /\ Len(Block(seen)) >= 2
    /\ IsEmptyDuration(LastLine(seen))
    /\ IsInlineDuration(seen[Len(seen) - 1])
    /\ current_outage[1].time = MarkerValue(seen[Len(seen) - 1], Trajanje)
    /\ current_outage[1].time # EmptyString

\* the rest of a line after its first token, trimmed
RemainderAfterPrefix(l) == Trim(Tail(l))

\* C15: the value a marker line stores is the trimmed remainder of the line
\* after the leading marker prefix, so a later occurrence of the marker
\* literal in the line stays in the value
C15_ValueIsRemainderAfterPrefix ==
    [][ (LineStep /\ IsSome(current_outage'))
          => LET l == LastLine(seen')
                 r == current_outage'[1]
             IN  /\ IsLocationLine(l) => r.location = RemainderAfterPrefix(l)
                 /\ IsStreetLine(l) => r.street = RemainderAfterPrefix(l)
                 /\ IsInlineDuration(l) => r.time = RemainderAfterPrefix(l)
                 /\ IsNoteLine(l) => r.note = RemainderAfterPrefix(l) ]_vars

\* the index in ls of the first location line, 0 when there is none
FirstLocationIndex(ls) ==
    LET idx == {i \in 1..Len(ls) : IsLocationLine(ls[i])}
    IN  IF idx = {} THEN 0 ELSE CHOOSE i \in idx : \A j \in idx : i <= j

\* C16: without a location line no record is opened or emitted, and once the
\* first location line came the extractor is in the state it would be in had
\* the stream started with that line
C16_LinesBeforeFirstLocationAreNoOps ==
    LET k == FirstLocationIndex(seen)
        fromFirst == FoldLines(InitPState, SubSeq(seen, k, Len(seen)), date)
    IN  IF k = 0
        THEN current_outage = None /\ outages = <<>>
        ELSE IF ppc = "scan"
             THEN CurPState = fromFirst
             ELSE outages = FinishParse(fromFirst)

\* street, empty duration and hyphen lines came before the first location
\* line, and the record it opened has only its location
C16_Witness ==
    /\ Len(seen) = 4
    /\ IsStreetLine(seen[1])
    /\ seen[1] # <<Ulica>>
    /\ IsEmptyDuration(seen[2])
    /\ IsHyphenLine(seen[3])
    /\ IsLocationLine(seen[4])
    /\ current_outage = Some(NewOutage(date, MarkerValue(seen[4], Mjesto)))
    /\ outages = <<>>

\* the index in ls of the last marker line, 0 when there is none
LastMarkerIndex(ls) ==
    LET idx == {i \in 1..Len(ls) : IsMarkerLine(ls[i])}
    IN  IF idx = {} THEN 0 ELSE CHOOSE i \in idx : \A j \in idx : j <= i

\* the last marker line is an empty duration marker and no hyphen line, which
\* would have been accepted as its continuation, came after it
ContinuationPending(ls) ==
    LET m == LastMarkerIndex(ls)
    IN  /\ m > 0
        /\ IsEmptyDuration(ls[m])
        /\ \A j \in (m + 1)..Len(ls) : ~IsHyphenLine(ls[j])

\* C17: the flag is set exactly when the last marker line was an empty
\* duration marker and no continuation was accepted since; after any other
\* marker a hyphen line is not assigned to time
C17_FlagTracksEmptyDuration ==
    /\ [](expect_time_next <=> ContinuationPending(seen))
    /\ [][ (LineStep /\ ~ContinuationPending(seen) /\ IsHyphenLine(LastLine(seen')))
              => UNCHANGED <<current_outage, expect_time_next, outages>> ]_vars

\* a street marker came between the empty duration marker and the hyphen line
C17_Witness ==
    /\ Len(seen) = 4
    /\ IsLocationLine(seen[1])
    /\ IsEmptyDuration(seen[2])
    /\ IsStreetLine(seen[3])
    /\ IsHyphenLine(seen[4])
    /\ IsSome(current_outage)
    /\ current_outage[1].time = EmptyString
    /\ ~expect_time_next

\* the line fits no rule: no marker prefix, and no accepted continuation
FitsNoRule(l, expect) ==
    /\ ~IsMarkerLine(l)
    /\ ~expect \/ l = EmptyString \/ ~ContainsHyphen(l)

\* C18: a line that fits no rule leaves the open record, the flag and the
\* output as they were
C18_IgnoredLineChangesNothing ==
    [][ (LineStep /\ FitsNoRule(LastLine(seen'), expect_time_next))
          => UNCHANGED <<current_outage, expect_time_next, outages>> ]_vars

\* a line without a hyphen came after an empty duration marker: the flag is
\* still set and no field took the line
C18_Witness ==
    /\ Len(seen) = 3
    /\ IsLocationLine(seen[1])
    /\ IsEmptyDuration(seen[2])
    /\ IsPlainLine(seen[3])
    /\ expect_time_next
    /\ current_outage = Some(NewOutage(date, MarkerValue(seen[1], Mjesto)))

\* the block has no street, duration or note marker
NoFieldMarker(b) ==
    \A i \in 1..Len(b) : ~(IsStreetLine(b[i]) \/ IsDurationLine(b[i]) \/ IsNoteLine(b[i]))

\* C19: a record whose block has no street, duration or note marker has only
\* its location and date, whatever came before its location line, and every
\* record carries the heading label of the page as its date
C19_NothingCarriesOver ==
    /\ \A i \in 1..Len(Started) : Started[i].date = date
    /\ (IsSome(current_outage) /\ NoFieldMarker(Block(seen)))
          => /\ current_outage[1].street = EmptyString
             /\ current_outage[1].time = EmptyString
             /\ current_outage[1].note = EmptyString
    /\ (seen # <<>> /\ IsLocationLine(LastLine(seen))) => ~expect_time_next

\* an empty duration marker was pending when the second location line came,
\* and the hyphen line after it did not become the second record's time
C19_Witness ==
    /\ Len(seen) = 4
    /\ IsLocationLine(seen[1])
    /\ IsEmptyDuration(seen[2])
    /\ IsLocationLine(seen[3])
    /\ IsHyphenLine(seen[4])
    /\ date # EmptyString
    /\ Len(outages) = 1
    /\ current_outage = Some(NewOutage(date, MarkerValue(seen[3], Mjesto)))

(* ------------- properties of composed pages (SpecRoundTrip) ------------- *)

\* the four text fields of a record
TextFields(r) ==
    [location |-> r.location, street |-> r.street, time |-> r.time, note |-> r.note]

\* C3: extraction of k composed blocks yields k records, in block order, whose
\* location, street, time and note are the values the blocks were built from
C3_RoundTrip ==
    ppc = "done" =>
        /\ Len(outages) = Len(blocks)
        /\ \A i \in 1..Len(outages) : TextFields(outages[i]) = blocks[i]

\* no value of the block mentions the marker of its own line
FreeOfOwnMarker(b) ==
    /\ Replace(b.location, Mjesto) = b.location
    /\ Replace(b.street, Ulica) = b.street
    /\ Replace(b.time, Trajanje) = b.time
    /\ Replace(b.note, Napomena) = b.note

\* the round trip of C3 for blocks whose values do not mention their own marker
RoundTripOfMarkerFreeValues ==
    (ppc = "done" /\ \A i \in 1..Len(blocks) : FreeOfOwnMarker(blocks[i])) =>
        /\ Len(outages) = Len(blocks)
        /\ \A i \in 1..Len(outages) : TextFields(outages[i]) = blocks[i]

(* ------------------ properties of the window (SpecMain) ------------------ *)

\* C7: the offsets 0..7 are each attempted once, in increasing order, whatever
\* the earlier attempts met, and the filter and the report come only after all
\* eight offsets have been processed
C7_EveryOffsetOnceInOrder ==
    /\ \A i \in 1..Len(attempts) : attempts[i].offset = i - 1
    /\ Len(attempts) <= LastOffset + 1
    /\ pc = "fetch" => Len(attempts) = days_ahead
    /\ pc = "sleep" => Len(attempts) = days_ahead + 1
    /\ pc \in {"filter", "report", "done"} => Len(attempts) = LastOffset + 1
    /\ \A i \in 1..Len(events) :
         events[i] \in {"filter", "print", "send_ok", "send_failed", "no_email"}
             => Len(SelectSeq(SubSeq(events, 1, i), LAMBDA e : e = "fetch")) = LastOffset + 1

\* the run is over, the first offset failed and the last one was extracted
C7_Witness ==
    /\ pc = "done"
    /\ ~attempts[1].parsed
    /\ attempts[LastOffset + 1].parsed

\* the records extracted from what an attempt met, none when fetch_page failed
Contribution(a) ==
    IF FetchPage(a.met).ok
    THEN ParseOutages(a.met.body.date, a.met.body.lines)
    ELSE <<>>

RECURSIVE Contributions(_)
Contributions(as) ==
    IF as = <<>> THEN <<>> ELSE Contribution(Head(as)) \o Contributions(Tail(as))

\* C8: all_outages is the concatenation, in offset order, of the records
\* extracted for the offsets whose fetch_page and parse_outages returned Ok,
\* each in page order; an offset whose fetch_page failed adds nothing
C8_AccumulatedInOffsetOrder == all_outages = Contributions(attempts)

\* after the loop: a failed offset and an offset without records between two
\* offsets that both gave records
C8_Witness ==
    /\ pc = "filter"
    /\ attempts[1].found # <<>>
    /\ ~attempts[2].parsed
    /\ attempts[3].parsed /\ attempts[3].found = <<>>
    /\ attempts[4].found # <<>>
    /\ Len(all_outages) >= 4

\* the fetch of an attempt failed in one of the fetch-error classes
IsFetchError(a) == a.met.kind = "transport_error" \/ IsErrorStatus(a.met.status)

\* C9: an attempt whose fetch failed in a fetch-error class, an HTTP error
\* status included, is an Err of fetch_page: its body is not passed to
\* parse_outages and it adds no record
C9_FetchErrorContributesNothing ==
    \A i \in 1..Len(attempts) :
        IsFetchError(attempts[i]) =>
            /\ ~FetchPage(attempts[i].met).ok
            /\ ~attempts[i].parsed
            /\ attempts[i].found = <<>>

(* ------------- properties of filter_outages (SpecFilter) ------------- *)

\* two characters that are equal up to case
SameLetter(c, d) == c = d \/ {c, d} = {"a", "A"} \/ {c, d} = {"b", "B"}

\* text contains needle as a substring, case ignored
ContainsIgnoringCase(text, needle) ==
    \E i \in 0..(Len(text) - Len(needle)) :
        \A j \in 1..Len(needle) : SameLetter(text[i + j], needle[j])

\* C10: with a filter text, filter_outages returns, in order, exactly the
\* records whose location or street contains the text, case ignored, and
\* leaves the input records as they were
C10_FilterKeepsExactlyMatches ==
    [][ (pc = "filter" /\ IsSome(filter))
          => /\ filtered_outages' =
                  SelectSeq(all_outages,
                            LAMBDA o : \/ ContainsIgnoringCase(o.location, filter[1])
                                       \/ ContainsIgnoringCase(o.street, filter[1]))
             /\ all_outages' = all_outages ]_vars

\* a filter in upper case kept a record by its street and dropped another
C10_Witness ==
    /\ pc = "report"
    /\ filter = Some(<<"b", "A">>)
    /\ Len(all_outages) = 2
    /\ Len(filtered_outages) = 1
    /\ filtered_outages[1] = all_outages[2]
    /\ filtered_outages[1].location = <<"b">>

\* C11: without a filter, or with an empty filter text, filter_outages returns
\* every input record once, in the original order
C11_NoFilterKeepsAll ==
    [][ (pc = "filter" /\ (filter = None \/ filter = Some(EmptyString)))
          => filtered_outages' = all_outages ]_vars

\* an empty filter text kept two different records, one without a street
C11_Witness ==
    /\ pc = "report"
    /\ filter = Some(EmptyString)
    /\ Len(all_outages) = 2
    /\ all_outages[1] # all_outages[2]
    /\ all_outages[2].street = EmptyString
    /\ filtered_outages = all_outages

(* --------------- properties of the whole run (SpecMain) --------------- *)

\* the events of es that are calls of send_email
Sends(es) == SelectSeq(es, LAMBDA e : e \in {"send_ok", "send_failed"})
Fetches(es) == SelectSeq(es, LAMBDA e : e = "fetch")
Delays(es) == SelectSeq(es, LAMBDA e : e = "sleep")

\* C12: with delivery required and a required variable missing, the run aborts
\* before the first fetch: nothing is fetched, accumulated, reported or sent;
\* in report-only mode missing mail variables never abort the run
C12_MissingConfigAbortsAtStartup ==
    /\ (~dry_run /\ ~((MailVars \cup HepVars) \subseteq env))
          => /\ pc \in {"config", "panicked"}
             /\ attempts = <<>>
             /\ events = <<>>
             /\ all_outages = <<>>
             /\ filtered_outages = <<>>
             /\ exit # "ok"
    /\ (dry_run /\ HepVars \subseteq env) => (pc # "panicked" /\ exit # "panic")

\* delivery is required, only the mail variables are missing, the run aborted
C12_Witness ==
    /\ ~dry_run
    /\ env = HepVars
    /\ pc = "panicked"
    /\ exit = "panic"

\* C13: a run whose configuration is complete never panics and reaches the end
\* of main with Ok(()), whatever the fetches meet and whether or not the
\* delivery fails
C13_CompleteConfigRunsToSuccess ==
    /\ []((Required(dry_run) \subseteq env) => exit \in {"running", "ok"})
    /\ []((pc = "done") => exit = "ok")
    /\ (Required(dry_run) \subseteq env) ~> (pc = "done" /\ exit = "ok")

\* the run returned Ok(()) although a fetch and the delivery had failed
C13_Witness ==
    /\ pc = "done"
    /\ exit = "ok"
    /\ events[Len(events)] = "send_failed"
    /\ \E i \in 1..Len(attempts) : ~attempts[i].parsed

\* C14: between two consecutive fetches there is exactly one delay, whatever
\* the earlier fetch met: after n fetches n - 1 delays were made when the last
\* fetch is not yet followed by its delay, and n otherwise
C14_OneDelayBetweenFetches ==
    /\ \A i \in 1..Len(events) : \A j \in (i + 1)..Len(events) :
         (/\ events[i] = "fetch" /\ events[j] = "fetch"
          /\ \A k \in (i + 1)..(j - 1) : events[k] # "fetch")
            => Len(Delays(SubSeq(events, i + 1, j - 1))) = 1
    /\ pc = "fetch" => Len(Delays(events)) = Len(Fetches(events))

\* the third fetch is due: the first fetch failed, the second gave records,
\* and each was followed by one delay
C14_Witness ==
    /\ pc = "fetch"
    /\ Len(attempts) = 2
    /\ ~attempts[1].parsed
    /\ attempts[2].found # <<>>
    /\ events = <<"fetch", "sleep", "fetch", "sleep">>

\* C20: send_email is called at most once, after all eight offsets and the
\* filter, only with report-only mode off and a non-empty filtered sequence;
\* in report-only mode it is never called
C20_AtMostOneNotification ==
    /\ Len(Sends(events)) <= 1
    /\ dry_run => Sends(events) = <<>>
    /\ \A i \in 1..Len(events) :
         events[i] \in {"send_ok", "send_failed"}
            => /\ ~dry_run
               /\ filtered_outages # <<>>
               /\ Len(Fetches(SubSeq(events, 1, i))) = LastOffset + 1
               /\ events[i - 1] = "filter"
               /\ i = Len(events)

\* a notification went out for a filter that kept some records and dropped others
C20_Witness ==
    /\ pc = "done"
    /\ events[Len(events)] = "send_ok"
    /\ IsSome(filter)
    /\ filtered_outages # <<>>
    /\ Len(filtered_outages) < Len(all_outages)

====
